---- MODULE Spec2Model ----
(***************************************************************************)
(* State-machine model of the FastLED wasm compile server:                 *)
(*   - the session manager (session_manager.py),                           *)
(*   - the /compile/wasm pipeline (server.py, server_compile.py),          *)
(*   - the /compile/libfastled streamer (server.py).                       *)
(***************************************************************************)
EXTENDS Integers, Sequences, FiniteSets, TLC

\* ------------------------------------------------------------------ bounds
\* The wall clock runs over 0..MaxTime (time.time(), in whole ticks).
MaxTime == 3
\* The constructor's worker_lease_seconds is drawn from 1..MaxLease.
MaxLease == 2
\* The constructor's gc_grace_period_seconds is drawn from 1..MaxGrace.
MaxGrace == 3

\* The values random.getrandbits(64) is drawn from.
Ids == {1, 2}
Threads == {"w1", "w2"}

\* Python's None for Optional[int] parameters and results.
None == -1

VARIABLES
    now,                     \* the wall clock read by time.time()
    worker_lease_duration,   \* SessionManager._worker_lease_duration
    gc_grace_period,         \* SessionManager._gc_grace_period
    sessions,                \* SessionManager._sessions : id -> SessionInfo
    wk,                      \* per worker thread: the session-manager call it is in
    gc,                      \* the GC thread's position in _gc_cleanup_cycle
    dirs,                    \* ids whose workspace directory session-<id> exists
    lib,                     \* the /compile/libfastled request and its stream
    req,                     \* per request thread: the /compile/wasm request it serves
    compiler_lock,           \* COMPILE_LOCK: the thread holding it, or Unlocked
    sketch_cache,            \* the sketch cache: fingerprint -> artifact bytes
    stats,                   \* ServerWasmCompiler.stats
    only_quick_builds,       \* ServerWasmCompiler.only_quick_builds
    started,                 \* how many /compile/wasm requests have arrived
    launched,                \* how many toolchain subprocesses have been launched
    tool_log,                \* history of lock acquisitions, launches, exits, releases
    built,                   \* the artifacts successful builds have packaged
    tmp,                     \* the temporary directories that exist, and the
                             \* source directories background cleanups will remove
    sync                     \* the thread running start_sync_live_git_to_target

sessionVars == <<now, worker_lease_duration, gc_grace_period, sessions, wk, gc, dirs>>

libVars == <<lib>>

compileVars == <<req, compiler_lock, sketch_cache, stats, only_quick_builds,
                 started, launched, tool_log, built, tmp>>

syncVars == <<sync>>

vars == <<sessionVars, libVars, compileVars, syncVars>>

\* What the session manager's operations never touch.
outsideSession == <<libVars, compileVars, syncVars>>

\* ------------------------------------------------- /compile/libfastled

\* server.py's _AUTH_TOKEN.
AUTH_TOKEN == "oBOT5jbsO4ztgrpNsQwlmFLIKB"

\* Header values a request may carry ("" stands for an absent header).
Authorizations == {AUTH_TOKEN, "letmein", ""}
Builds == {"", "quick", "Debug", "RELEASE", "fast"}
DryRuns == {"false", "TRUE", "Yes", "1", "on"}

\* What compiler.update_src can do: return a result without or with changed
\* files, return a result that carries an exception, or raise.
UpdateOutcomes == {"unchanged", "changed", "result_exception", "raised"}

\* The optional attributes of a raised exception that the handlers look at.
ExcAttrs == {"stdout", "stderr", "returncode"}

\* str.upper() on the build header values.
upper(s) ==
    CASE s = "quick" -> "QUICK"
      [] s = "Debug" -> "DEBUG"
      [] s = "fast" -> "FAST"
      [] OTHER -> s

\* Mutant of lower: the header value is compared as it was sent.
same_case(s) == s

\* str.lower() on the dry_run header values.
lower(s) ==
    CASE s = "TRUE" -> "true"
      [] s = "Yes" -> "yes"
      [] OTHER -> s

\* One line "data: <tag>[: <arg>]\n" of the stream.
Event(tag, arg) == [tag |-> tag, arg |-> arg]

\* f"{exit_code}"
ExitCodeStr(exit_code) ==
    CASE exit_code = 0 -> "0"
      [] exit_code = 1 -> "1"
      [] OTHER -> "-1"

\* The logical HTTP status appended to the stream.
http_status(exit_code) ==
    IF exit_code = 0 THEN "200" ELSE IF exit_code = 1 THEN "400" ELSE "500"

\* Mutant of trailer_events: the status line is sent before the exit code and
\* the HTTP status is left out.
trailer_events_unordered(exit_code, status) ==
    << Event("COMPILATION_COMPLETE", ""),
       Event("STATUS", status),
       Event("EXIT_CODE", ExitCodeStr(exit_code)) >>

\* The completion markers of the finally block, in the order they are yielded.
trailer_events(exit_code, status) ==
    << Event("COMPILATION_COMPLETE", ""),
       Event("EXIT_CODE", ExitCodeStr(exit_code)),
       Event("STATUS", status),
       Event("HTTP_STATUS", http_status(exit_code)) >>

\* The progress messages update_src_async yields before the executor call.
update_src_async_prologue ==
    << Event("Starting source update check...", ""),
       Event("Checking for FastLED source file changes from", "VOLUME_MAPPED_SRC") >>

\* The progress messages update_src_async yields after the executor call
\* (one changed file when files changed).
update_src_async_epilogue(outcome) ==
    CASE outcome = "unchanged" ->
            << Event("No source file changes detected", ""),
               Event("Source update completed", "") >>
      [] outcome = "changed" ->
            << Event("Source update result", "stdout"),
               Event("Found changed files", "1"),
               Event("  Changed", "file_path"),
               Event("Source files updated successfully", ""),
               Event("Source update completed", "") >>
      [] outcome = "result_exception" ->
            << Event("Source update failed", "full_error"),
               Event("Source update completed with errors", "") >>
      [] OTHER ->
            << Event("Source update failed", "full_error") >>

\* The lines the inner handler yields for an exception with attributes attrs.
inner_except_events(attrs) ==
    << Event("ERROR: Source update or compilation failed", "error_message") >>
    \o (IF "stdout" \in attrs THEN << Event("Compilation stdout", "stdout") >> ELSE << >>)
    \o (IF "stderr" \in attrs THEN << Event("Compilation stderr", "stderr") >> ELSE << >>)
    \o (IF "returncode" \in attrs THEN << Event("Exit code", "returncode") >> ELSE << >>)

\* The lines the outer handler yields.
outer_except_events ==
    << Event("ERROR", "error_message"), Event("Stack trace", "stack_trace") >>

\* No request yet; exit_code and status as stream_compilation initialises them.
NoRequest ==
    [pc |-> "none",
     request |-> [authorization |-> "", build |-> "", dry_run |-> "", exists |-> FALSE],
     http |-> 0, detail |-> << >>, build_mode_str |-> "",
     dry_run_bool |-> FALSE, events |-> << >>, queue |-> << >>, upd |-> "none",
     exc |-> {}, exit_code |-> 0, status |-> "SUCCESS",
     disconnected |-> FALSE, thrown |-> "none"]

LibInit == lib = NoRequest

\* ------------------------------------------------------ /compile/wasm: data

\* bound: the /compile/wasm requests of one behaviour.
MaxRequests == 2

\* The threads of the server's pool that run compile_wasm.
Requests == {"r1", "r2"}

\* Fingerprints generate_hash_of_project_files can return for the uploads.
Sketches == {"a", "b"}

\* hash_value = None: the fingerprint could not be computed.
NoHash == "none"

\* The build header values of /compile/wasm ("" stands for an absent header).
WasmBuilds == {"", "quick", "Release", "bogus"}

\* _UPLOAD_LIMIT, the max_upload_size of the UploadSizeMiddleware.
UPLOAD_LIMIT == 10 * 1024 * 1024

\* content-length header values ("" stands for an absent header).
ContentLengths == {"", "0", "10485760", "10485761"}

\* int(content_length) on the content-length header values.
int(s) ==
    CASE s = "0" -> 0
      [] s = "10485760" -> 10485760
      [] s = "10485761" -> 10485761
      [] OTHER -> 0

\* Mutant of too_large: an upload of exactly the limit is refused as well.
too_large_inclusive(content_length) ==
    content_length # "" /\ int(content_length) >= UPLOAD_LIMIT

\* if content_length: ... int(content_length) > self.max_upload_size
too_large(content_length) ==
    content_length # "" /\ int(content_length) > UPLOAD_LIMIT

\* threading.Lock() not held by any thread.
Unlocked == "free"

\* No body: the response is an error, or not yet made.
NoBody == [hash |-> NoHash, build |-> "", serial |-> 0]

\* Mutant of locked: the lock looks free to everyone.
never_locked(l) == FALSE

\* Lock.locked()
locked(l) == l # Unlocked

\* str.lower() on the build header values (an absent header stays absent).
build_lower(s) == IF s = "Release" THEN "release" ELSE s

\* SessionManager.get_session_info(session_id).
get_session_info(session_id) ==
    IF session_id = None \/ session_id \notin DOMAIN sessions
    THEN [exists |-> FALSE, age_seconds |-> 0, within_worker_lease |-> FALSE]
    ELSE [exists |-> TRUE,
          age_seconds |-> now - sessions[session_id].last_used,
          within_worker_lease |->
              now - sessions[session_id].last_used < worker_lease_duration]

\* Mutant of cacheable: the flag of the request is ignored.
cacheable_if_hashed(hash_value, use_sketch_cache) == hash_value # NoHash

\* server_compile: "hash_value is not None and use_sketch_cache", the
\* condition of both the cache lookup and the cache insert.
cacheable(hash_value, use_sketch_cache) ==
    hash_value # NoHash /\ use_sketch_cache

\* Mutant of try_get_cached_zip: any stored entry is returned, whatever its key.
try_get_any_zip(cache, hash) ==
    IF DOMAIN cache = {} THEN NoBody ELSE cache[CHOOSE h \in DOMAIN cache : TRUE]

\* try_get_cached_zip: sketch_cache.get_bytes(hash), NoBody for None.
try_get_cached_zip(cache, hash) ==
    IF hash \in DOMAIN cache THEN cache[hash] ELSE NoBody

\* cache_put: sketch_cache.put_bytes(hash, data).
cache_put(cache, hash, data) ==
    [h \in DOMAIN cache \cup {hash} |-> IF h = hash THEN data ELSE cache[h]]

\* Optional[bool] header values of /compile/wasm (native, no_platformio).
OptBools == {"None", "True", "False"}

\* Values of the NATIVE and NO_PLATFORMIO environment variables.
EnvValues == {"unset", "1", "true"}
Environs == [NATIVE : EnvValues, NO_PLATFORMIO : EnvValues]

OptionHeaders == [native : OptBools, no_platformio : OptBools]

\* The environment and the headers of a client that sets neither option.
NoEnviron == [NATIVE |-> "unset", NO_PLATFORMIO |-> "unset"]
NoOptions == [native |-> "None", no_platformio |-> "None"]

\* os.environ.get(key, default)
environ_get(environ, key, default) ==
    IF environ[key] = "unset" THEN default ELSE environ[key]

\* Mutant of force_no_platformio: native does not touch no_platformio.
keep_no_platformio(native, no_platformio) == no_platformio

\* if native: no_platformio = True
force_no_platformio(native, no_platformio) ==
    IF native THEN TRUE ELSE no_platformio

\* The Args(...) _compile_source builds for the toolchain's command line.
Args(build_mode, no_platformio) ==
    [keep_files |-> build_mode = "debug",
     no_platformio |-> no_platformio,
     debug |-> build_mode = "debug",
     quick |-> build_mode = "quick",
     release |-> build_mode = "release"]

\* No command line has been built.
NoArgs == Args("", FALSE)

\* temp_zip_dir = None, temp_src_dir = None: no directory was created.
NoDir == "none"

\* The directory names tempfile.mkdtemp() can return.
TmpNames == {"tmp1", "tmp2", "tmp3", "tmp4"}

\* Each thread's mkdtemp() calls return names of its own.
PrivateTemps ==
    [r \in {"r1", "r2"} |-> IF r = "r1" THEN {<< "tmp1", "tmp2" >>}
                                        ELSE {<< "tmp3", "tmp4" >>}]

\* mkdtemp() returns any two of three names that are not in use.
SharedTemps ==
    [r \in {"r1", "r2"} |->
        {pair \in {"tmp1", "tmp2", "tmp3"} \X {"tmp1", "tmp2", "tmp3"} :
            pair[1] # pair[2]}]

\* How many top-level entries the extracted tree of an upload can have.
TopEntries == {0, 1, 2}

\* A thread of the pool with no request.
NoCompile ==
    [pc |-> "idle", authorization |-> "", content_length |-> "",
     session_id |-> None, sid |-> None,
     session_info |-> [exists |-> FALSE, age_seconds |-> 0, within_worker_lease |-> FALSE],
     called |-> 0, build |-> "", hash_value |-> NoHash, use_sketch_cache |-> FALSE,
     count |-> 0, took_lock |-> FALSE, invoked |-> FALSE,
     status |-> 0, x_session_id |-> None, body |-> NoBody, cached |-> FALSE,
     headers |-> NoOptions, environ |-> NoEnviron,
     native |-> FALSE, no_platformio |-> FALSE, args |-> NoArgs,
     entries |-> None, temp_zip_dir |-> NoDir, temp_src_dir |-> NoDir,
     detail |-> << >>, cache_ops |-> << >>]

CompileInit ==
    /\ req = [r \in Requests |-> NoCompile]
    /\ compiler_lock = Unlocked
    /\ sketch_cache = << >>
    /\ stats = [compile_count |-> 0, compile_failures |-> 0, compile_successes |-> 0]
    /\ only_quick_builds \in BOOLEAN
    /\ started = 0
    /\ launched = 0
    /\ tool_log = << >>
    /\ built = {}
    /\ tmp = [exists |-> {}, cleanup |-> {}]

\* ONLY_QUICK_BUILDS defaults to "false".
CompileDefaults == only_quick_builds = FALSE

\* ---------------------------------------------------------- session manager

SessionInfo(session_id, current_time) ==
    [session_id |-> session_id, last_used |-> current_time, created |-> current_time]

Idle == [pc |-> "idle", hint |-> None, ct |-> 0, age |-> 0, sid |-> None, reused |-> FALSE]

GcIdle == [pc |-> "sleep", ct |-> 0, to_delete |-> {}, ret |-> 0]

\* Mutant of lease_expired: the lease measured from creation, not from last use.
lease_expired_since_created(session, current_time) ==
    current_time - session.created > worker_lease_duration

\* Mutant of lease_expired: the distance between the two times is compared,
\* whichever of them is the later one.
lease_expired_either_way(session, current_time) ==
    LET age == current_time - session.last_used
    IN (IF age < 0 THEN -age ELSE age) > worker_lease_duration

\* age > self._worker_lease_duration: the worker will not use the session.
lease_expired(session, current_time) ==
    current_time - session.last_used > worker_lease_duration

\* Mutant of gc_eligible: the grace period compared with >= instead of >.
gc_eligible_inclusive(session_info, current_time) ==
    current_time - session_info.last_used >= gc_grace_period

\* age > self._gc_grace_period: the sweep deletes the session.
gc_eligible(session_info, current_time) ==
    current_time - session_info.last_used > gc_grace_period

\* Mutant of fresh_ids: the draw is not checked against the registry.
any_ids(registry) == Ids

\* The ids the "while True: getrandbits; if not in self._sessions" loop can end on.
fresh_ids(registry) == Ids \ DOMAIN registry

\* self._sessions[session_id] = SessionInfo(...)
register(registry, session_id, current_time) ==
    [i \in DOMAIN registry \cup {session_id} |->
        IF i = session_id THEN SessionInfo(session_id, current_time) ELSE registry[i]]

SessionInit ==
    /\ now = 0
    /\ worker_lease_duration \in 1..MaxLease
    /\ gc_grace_period \in 1..MaxGrace
    /\ sessions = << >>
    /\ wk = [t \in Threads |-> Idle]
    /\ gc = GcIdle
    /\ dirs = {}

\* The constructor's defaults (20 and 40 minutes) in ticks of 20 minutes.
SessionDefaults == worker_lease_duration = 1 /\ gc_grace_period = 2

\* The server after start-up, for any lease and grace period.
\* start_sync_live_git_to_target has not been called.
SyncIdle == [pc |-> "idle", has_rsync |-> FALSE, in_with |-> FALSE]

SyncInit == sync = SyncIdle

Init == SessionInit /\ LibInit /\ CompileInit /\ CompileDefaults /\ SyncInit

\* The server after start-up with the default lease and grace period.
DefaultInit == Init /\ SessionDefaults

\* The same server started with ONLY_QUICK_BUILDS=1.
QuickOnlyInit ==
    /\ SessionInit /\ SessionDefaults /\ LibInit /\ CompileInit /\ SyncInit
    /\ only_quick_builds = TRUE

\* The clock advances; nothing else changes.
Tick ==
    /\ now < MaxTime
    /\ now' = now + 1
    /\ UNCHANGED <<worker_lease_duration, gc_grace_period, sessions, wk, gc, dirs>>
    /\ UNCHANGED outsideSession

\* get_or_create_session, up to the mutex: current_time = time.time().
get_or_create_session_call(t, session_id_param) ==
    /\ wk[t].pc = "idle"
    /\ wk' = [wk EXCEPT ![t] = [Idle EXCEPT !.pc = "goc_lock",
                                            !.hint = session_id_param,
                                            !.ct = now]]
    /\ UNCHANGED <<now, worker_lease_duration, gc_grace_period, sessions, gc, dirs>>
    /\ UNCHANGED outsideSession

\* get_or_create_session, the block under self._lock.
get_or_create_session_locked(t) ==
    /\ wk[t].pc = "goc_lock"
    /\ LET h == wk[t].hint
           current_time == wk[t].ct
           reuse == /\ h # None
                    /\ h \in DOMAIN sessions
                    /\ ~lease_expired(sessions[h], current_time)
       IN IF reuse
          THEN /\ sessions' = [sessions EXCEPT ![h].last_used = current_time]
               /\ wk' = [wk EXCEPT ![t].pc = "goc_ret", ![t].sid = h,
                                   ![t].age = current_time - sessions[h].last_used,
                                   ![t].reused = TRUE]
          ELSE \E new_id \in fresh_ids(sessions) :
               /\ sessions' = register(sessions, new_id, current_time)
               /\ wk' = [wk EXCEPT ![t].pc = "goc_ret", ![t].sid = new_id,
                                   ![t].age = IF h \in DOMAIN sessions
                                              THEN current_time - sessions[h].last_used
                                              ELSE 0,
                                   ![t].reused = FALSE]
    /\ UNCHANGED <<now, worker_lease_duration, gc_grace_period, gc, dirs>>
    /\ UNCHANGED outsideSession

\* The caller takes the returned tuple; the thread is free for its next call.
session_return(t) ==
    /\ wk[t].pc \in {"goc_ret", "gen_ret"}
    /\ wk' = [wk EXCEPT ![t] = Idle]
    /\ UNCHANGED <<now, worker_lease_duration, gc_grace_period, sessions, gc, dirs>>
    /\ UNCHANGED outsideSession

\* generate_session_id: draw ids until one is unused, then register it under
\* self._lock with the clock read inside the lock.  Drawing before the lock and
\* re-drawing on a collision ends on exactly the ids unused at the locked step.
generate_session_id(t) ==
    /\ wk[t].pc = "idle"
    /\ \E session_id \in fresh_ids(sessions) :
          /\ sessions' = register(sessions, session_id, now)
          /\ wk' = [wk EXCEPT ![t] = [Idle EXCEPT !.pc = "gen_ret", !.sid = session_id,
                                                   !.ct = now]]
    /\ UNCHANGED <<now, worker_lease_duration, gc_grace_period, gc, dirs>>
    /\ UNCHANGED outsideSession

\* _gc_cleanup_cycle: current_time = time.time(); to_delete = [].
gc_cleanup_cycle_call ==
    /\ gc.pc = "sleep"
    /\ gc' = [GcIdle EXCEPT !.pc = "scan", !.ct = now]
    /\ UNCHANGED <<now, worker_lease_duration, gc_grace_period, sessions, wk, dirs>>
    /\ UNCHANGED outsideSession

\* _gc_cleanup_cycle step 1, under self._lock: collect and unregister.
gc_cleanup_cycle_locked ==
    /\ gc.pc = "scan"
    /\ LET old == {i \in DOMAIN sessions : gc_eligible(sessions[i], gc.ct)}
       IN /\ sessions' = [i \in DOMAIN sessions \ old |-> sessions[i]]
          /\ gc' = [gc EXCEPT !.pc = "rmdirs", !.to_delete = old]
    /\ UNCHANGED <<now, worker_lease_duration, gc_grace_period, wk, dirs>>
    /\ UNCHANGED outsideSession

\* _gc_cleanup_cycle step 2, outside the lock: rmtree of every collected
\* session's directory, then return len(to_delete).
gc_cleanup_cycle_rmtree ==
    /\ gc.pc = "rmdirs"
    /\ dirs' = dirs \ gc.to_delete
    /\ gc' = [gc EXCEPT !.pc = "ret", !.ret = Cardinality(gc.to_delete)]
    /\ UNCHANGED <<now, worker_lease_duration, gc_grace_period, sessions, wk>>
    /\ UNCHANGED outsideSession

\* The workspace directory _get_session_dir(session_id) of a registered
\* session comes into existence: the build that was given the session
\* creates it (the session manager itself only removes such directories).
session_dir_created(session_id) ==
    /\ session_id \in DOMAIN sessions
    /\ session_id \notin dirs
    /\ dirs' = dirs \cup {session_id}
    /\ UNCHANGED <<now, worker_lease_duration, gc_grace_period, sessions, wk, gc>>
    /\ UNCHANGED outsideSession

\* _gc_cleanup_loop takes the count and sleeps until the next cycle.
gc_cleanup_loop ==
    /\ gc.pc = "ret"
    /\ gc' = GcIdle
    /\ UNCHANGED <<now, worker_lease_duration, gc_grace_period, sessions, wk, dirs>>
    /\ UNCHANGED outsideSession

\* One step of the session manager: the clock, a call by one of the threads T
\* (get_or_create_session with a hint from Hints), or the GC thread.
SessionStepFor(T, Hints) ==
    \/ Tick
    \/ \E t \in T : \E h \in Hints : get_or_create_session_call(t, h)
    \/ \E t \in T : get_or_create_session_locked(t)
    \/ \E t \in T : session_return(t)
    \/ \E t \in T : generate_session_id(t)
    \/ gc_cleanup_cycle_call
    \/ gc_cleanup_cycle_locked
    \/ gc_cleanup_cycle_rmtree
    \/ gc_cleanup_loop

SessionStep(T) == SessionStepFor(T, Ids \cup {None})

\* Two worker threads and the GC thread.
SessionNext == SessionStep(Threads)

\* Two worker threads that pass session 1 or no session, and the GC thread.
SessionSharedNext == SessionStepFor(Threads, {1, None})

\* One worker thread and the GC thread.
SessionSeqNext == SessionStep({"w1"})

SpecSession ==
    DefaultInit
    /\ [][SessionNext]_vars

SpecSessionSeq ==
    Init
    /\ [][SessionSeqNext]_vars

SpecSessionShared ==
    DefaultInit
    /\ [][SessionSharedNext]_vars

\* One worker thread that passes no session, the GC thread, and the builds
\* that create the workspace directories of registered sessions.
SessionDirsNext ==
    \/ SessionStepFor({"w1"}, {None})
    \/ \E session_id \in Ids : session_dir_created(session_id)

SpecSessionDirs ==
    DefaultInit
    /\ [][SessionDirsNext]_vars

\* ------------------------------------------------- session manager: claims

\* Thread t takes the locked step of get_or_create_session in this transition.
GocStep(t) == wk[t].pc = "goc_lock" /\ wk'[t].pc = "goc_ret"

\* Every record registered before the step is the same after it.
RecordsKept == \A i \in DOMAIN sessions : i \in DOMAIN sessions' /\ sessions'[i] = sessions[i]

\* The step registers wk'[t].sid, unregistered before, with created = last_used = ct.
MintedFresh(t) ==
    /\ ~wk'[t].reused
    /\ wk'[t].sid \notin DOMAIN sessions
    /\ DOMAIN sessions' = DOMAIN sessions \cup {wk'[t].sid}
    /\ sessions'[wk'[t].sid].created = wk[t].ct
    /\ sessions'[wk'[t].sid].last_used = wk[t].ct
    /\ RecordsKept

\* C2: a call for a registered session whose age (the sampled time minus
\* last_used) is strictly below the worker lease returns (h, true), sets
\* last_used(h) to the sampled time, and leaves created(h) and every other
\* record unchanged, however long ago h was created.
C2_ReuseWithinLease ==
    [][\A t \in Threads :
          (/\ GocStep(t)
           /\ wk[t].hint \in DOMAIN sessions
           /\ wk[t].ct - sessions[wk[t].hint].last_used < worker_lease_duration)
          => /\ wk'[t].sid = wk[t].hint
             /\ wk'[t].reused
             /\ DOMAIN sessions' = DOMAIN sessions
             /\ sessions'[wk[t].hint].last_used = wk[t].ct
             /\ sessions'[wk[t].hint].created = sessions[wk[t].hint].created
             /\ \A i \in DOMAIN sessions \ {wk[t].hint} : sessions'[i] = sessions[i]]_vars

\* C2 witness: a session created more than a lease ago, touched less than a
\* lease ago, has just been reused.
C2_Witness ==
    \E t \in Threads :
        /\ wk[t].pc = "goc_ret"
        /\ wk[t].reused
        /\ wk[t].sid = wk[t].hint
        /\ wk[t].age >= 0
        /\ wk[t].age < worker_lease_duration
        /\ wk[t].sid \in DOMAIN sessions
        /\ sessions[wk[t].sid].last_used = wk[t].ct
        /\ wk[t].ct - sessions[wk[t].sid].created > worker_lease_duration

\* The cases in which C3 promises a fresh session.
C3_Case(t) ==
    /\ GocStep(t)
    /\ \/ wk[t].hint = None
       \/ wk[t].hint \notin DOMAIN sessions
       \/ wk[t].ct - sessions[wk[t].hint].last_used > worker_lease_duration

C4_Sweep ==
    /\ (gc.pc = "scan" /\ gc'.pc = "rmdirs")
       => /\ DOMAIN sessions \ DOMAIN sessions'
                = {i \in DOMAIN sessions : gc.ct - sessions[i].last_used > gc_grace_period}
          /\ gc'.to_delete = DOMAIN sessions \ DOMAIN sessions'
          /\ \A i \in DOMAIN sessions' : i \in DOMAIN sessions /\ sessions'[i] = sessions[i]
    /\ (gc.pc = "rmdirs" /\ gc'.pc = "ret")
       => /\ gc'.ret = Cardinality(gc.to_delete)
          /\ sessions' = sessions

\* A get_or_create_session whose hint the current sweep has removed.
C4_OnRemoved(t) ==
    /\ GocStep(t)
    /\ gc.pc \in {"rmdirs", "ret"}
    /\ wk[t].hint \in gc.to_delete

C5_NoWorkerGcCollision ==
    [][\A t \in Threads : \A h \in Ids :
          (/\ gc.pc = "scan" /\ gc'.pc = "rmdirs"
           /\ h \in DOMAIN sessions /\ h \notin DOMAIN sessions'
           /\ wk[t].pc = "goc_ret" /\ wk[t].reused /\ wk[t].sid = h)
          => now - wk[t].ct >= gc_grace_period - worker_lease_duration]_vars

\* The SessionManager.get_session_stats entry safety_gap.
safety_gap == gc_grace_period - worker_lease_duration

\* C6: every manager has GcGrace > WorkerLease, so safety_gap is positive.
C6_GraceExceedsLease == gc_grace_period > worker_lease_duration /\ safety_gap > 0

\* C14: a registered session is reused by get_or_create_session if and only
\* if the sampled time minus last_used is strictly below the worker lease (at
\* the boundary it is not reused), and the within_worker_lease flag of
\* get_session_info agrees with that decision at the same instant.
C14_ReuseIffWithinLease ==
    [][\A t \in Threads :
          (GocStep(t) /\ wk[t].hint \in DOMAIN sessions)
          => /\ wk'[t].reused
                   <=> wk[t].ct - sessions[wk[t].hint].last_used < worker_lease_duration
             /\ now = wk[t].ct
                   => (wk'[t].reused
                          <=> get_session_info(wk[t].hint).within_worker_lease)]_vars

\* ---------------------------------------------------- /compile/wasm: steps

\* The request ends with an HTTPException(status_code): no session headers.
Raise(r, status_code) ==
    [req EXCEPT ![r].pc = "done", ![r].status = status_code]

\* The request ends with a FileResponse, to which compile_wasm adds
\* X-Session-Id = str(session_id) and X-Session-Info.
FileResponse(r, data, from_cache) ==
    [req EXCEPT ![r].pc = "done", ![r].status = 200, ![r].body = data,
                ![r].cached = from_cache, ![r].x_session_id = req[r].sid]

Logged(ev, r) == Append(tool_log, [ev |-> ev, r |-> r])

\* UploadSizeMiddleware.dispatch for a POST to /compile/wasm: 413 when the
\* declared content-length exceeds the limit, else call_next.
dispatch(r, authorization, content_length) ==
    /\ req[r].pc = "idle"
    /\ started < MaxRequests
    /\ started' = started + 1
    /\ LET arrived == [NoCompile EXCEPT !.authorization = authorization,
                                        !.content_length = content_length]
       IN req' = [req EXCEPT ![r] =
             IF too_large(content_length)
             THEN [arrived EXCEPT !.pc = "done", !.status = 413]
             ELSE [arrived EXCEPT !.pc = "endpoint"]]
    /\ UNCHANGED <<compiler_lock, sketch_cache, stats, only_quick_builds,
                   launched, tool_log, built>>
    /\ UNCHANGED <<sessionVars, libVars, syncVars>>
    /\ UNCHANGED tmp

\* server_compile's finally block, reached when the request is answered:
\* both temporary directories are removed.  A freshly built artifact's
\* response carries the background task _cleanup_task, whose list holds the
\* source directory's path.
server_compile_finally(r) ==
    LET answered == req'[r].pc = "done"
        fresh == answered /\ req'[r].status = 200 /\ ~req'[r].cached
    IN tmp' = [exists |-> IF answered
                          THEN tmp.exists \ {req[r].temp_zip_dir, req[r].temp_src_dir}
                          ELSE tmp.exists,
               cleanup |-> IF fresh THEN tmp.cleanup \cup {req[r].temp_src_dir}
                                    ELSE tmp.cleanup]

\* compile_wasm up to the staged upload: session handling, the native and
\* no_platformio options with their environment fallbacks, then
\* server_compile's validation of build and filename, the temporary
\* directories, the extraction and the fingerprint.
compile_wasm(r, session_id, build, zip_name, sketch, use_sketch_cache, headers, environ, temp_zip_dir, temp_src_dir) ==
    /\ req[r].pc = "endpoint"
    /\ temp_zip_dir # temp_src_dir
    /\ {temp_zip_dir, temp_src_dir} \cap tmp.exists = {}
    /\ \E sid \in IF session_id = None THEN fresh_ids(sessions) ELSE {session_id} :
          /\ sessions' = IF session_id = None THEN register(sessions, sid, now)
                                              ELSE sessions
          /\ LET native == IF headers.native = "None"
                           THEN environ_get(environ, "NATIVE", "0") = "1"
                           ELSE headers.native = "True"
                 no_platformio ==
                     IF headers.no_platformio = "None"
                     THEN environ_get(environ, "NO_PLATFORMIO", "0") = "1"
                     ELSE headers.no_platformio = "True"
                 called == [req[r] EXCEPT
                               !.headers = headers,
                               !.environ = environ,
                               !.native = native,
                               !.no_platformio =
                                   force_no_platformio(native, no_platformio),
                               !.session_id = session_id,
                               !.session_info = get_session_info(session_id),
                               !.sid = sid,
                               !.called = now]
             IN req' = [req EXCEPT ![r] =
                   IF build_lower(build) \notin {"quick", "release", "debug", ""}
                   THEN [called EXCEPT !.pc = "done", !.status = 400]
                   ELSE IF ~zip_name
                   THEN [called EXCEPT !.pc = "done", !.status = 400]
                   ELSE [called EXCEPT
                            !.pc = "staged",
                            !.build = IF build_lower(build) = "" THEN "quick"
                                                                 ELSE build_lower(build),
                            !.hash_value = sketch,
                            !.use_sketch_cache = use_sketch_cache,
                            !.temp_zip_dir = temp_zip_dir,
                            !.temp_src_dir = temp_src_dir]]
    /\ tmp' = IF req'[r].pc = "staged"
              THEN [tmp EXCEPT !.exists = @ \cup {temp_zip_dir, temp_src_dir}]
              ELSE tmp
    /\ UNCHANGED <<now, worker_lease_duration, gc_grace_period, wk, gc, dirs>>
    /\ UNCHANGED <<compiler_lock, sketch_cache, stats, only_quick_builds,
                   started, launched, tool_log, built>>
    /\ UNCHANGED <<libVars, syncVars>>

\* server_compile: compiler.update_src when allow_libcompile is set and the
\* source mirror exists; the sketch cache is cleared when files changed.
server_compile_update_src(r, files_changed) ==
    /\ req[r].pc = "staged"
    /\ req' = [req EXCEPT ![r].pc = "lookup"]
    /\ sketch_cache' = IF files_changed THEN << >> ELSE sketch_cache
    /\ UNCHANGED <<compiler_lock, stats, only_quick_builds, started, launched,
                   tool_log, built>>
    /\ UNCHANGED <<sessionVars, libVars, syncVars>>
    /\ UNCHANGED tmp

\* server_compile: the cache lookup and the cache-hit response.  cache_ops
\* records the calls the request makes on the sketch cache.
server_compile_cache_get(r) ==
    /\ req[r].pc = "lookup"
    /\ LET reads == cacheable(req[r].hash_value, req[r].use_sketch_cache)
           entry == IF reads
                    THEN try_get_cached_zip(sketch_cache, req[r].hash_value)
                    ELSE NoBody
           ops   == IF reads THEN Append(req[r].cache_ops, "get")
                    ELSE req[r].cache_ops
       IN req' = IF entry # NoBody
                 THEN [FileResponse(r, entry, TRUE) EXCEPT ![r].cache_ops = ops]
                 ELSE [req EXCEPT ![r].pc = "compile", ![r].cache_ops = ops]
    /\ UNCHANGED <<compiler_lock, sketch_cache, stats, only_quick_builds, started,
                   launched, tool_log, built>>
    /\ UNCHANGED <<sessionVars, libVars, syncVars>>
    /\ server_compile_finally(r)

\* _compile_source: the quick-only check, then the read of
\* stats.compile_count for "+= 1".
compile_source(r) ==
    /\ req[r].pc = "compile"
    /\ req' = IF req[r].build # "quick" /\ only_quick_builds
              THEN Raise(r, 400)
              ELSE [req EXCEPT ![r].pc = "count", ![r].count = stats.compile_count]
    /\ UNCHANGED <<compiler_lock, sketch_cache, stats, only_quick_builds, started,
                   launched, tool_log, built>>
    /\ UNCHANGED <<sessionVars, libVars, syncVars>>
    /\ server_compile_finally(r)

\* _compile_source: the write of stats.compile_count, then the search for the
\* extracted tree's first entry (next(iterdir()) of a tree with that many
\* top-level entries), then the command line for the toolchain.
compile_source_count(r, entries) ==
    /\ req[r].pc = "count"
    /\ stats' = [stats EXCEPT !.compile_count = req[r].count + 1]
    /\ req' = IF entries # 0
              THEN [req EXCEPT
                       ![r].pc = "wait_lock",
                       ![r].entries = entries,
                       ![r].args = Args(req[r].build,
                                        force_no_platformio(req[r].native,
                                                            req[r].no_platformio))]
              ELSE [Raise(r, 500) EXCEPT ![r].entries = entries]
    /\ UNCHANGED <<compiler_lock, sketch_cache, only_quick_builds, started,
                   launched, tool_log, built>>
    /\ UNCHANGED <<sessionVars, libVars, syncVars>>
    /\ server_compile_finally(r)

\* _compile_source: "with compiler_lock:" is entered.
compile_source_acquire(r) ==
    /\ req[r].pc = "wait_lock"
    /\ ~locked(compiler_lock)
    /\ compiler_lock' = r
    /\ req' = [req EXCEPT ![r].pc = "locked", ![r].took_lock = TRUE]
    /\ tool_log' = Logged("acquire", r)
    /\ UNCHANGED <<sketch_cache, stats, only_quick_builds, started, launched, built>>
    /\ UNCHANGED <<sessionVars, libVars, syncVars>>
    /\ UNCHANGED tmp

\* _compile_source: subprocess.Popen launches the toolchain, or raises and the
\* with statement releases the lock (server_compile answers 500).
compile_source_popen(r, spawned) ==
    /\ req[r].pc = "locked"
    /\ IF spawned
       THEN /\ req' = [req EXCEPT ![r].pc = "running", ![r].invoked = TRUE]
            /\ launched' = launched + 1
            /\ tool_log' = Logged("launch", r)
            /\ UNCHANGED compiler_lock
       ELSE /\ req' = Raise(r, 500)
            /\ compiler_lock' = Unlocked
            /\ tool_log' = Logged("release", r)
            /\ UNCHANGED launched
    /\ UNCHANGED <<sketch_cache, stats, only_quick_builds, started, built>>
    /\ UNCHANGED <<sessionVars, libVars, syncVars>>
    /\ server_compile_finally(r)

\* _compile_source: the output is read to its end, proc.wait() returns, the
\* result counter is incremented and the with statement releases the lock.
\* The detail of the 400 is the message as the sequence of its pieces.
compile_source_wait(r, return_code) ==
    /\ req[r].pc = "running"
    /\ compiler_lock' = Unlocked
    /\ tool_log' = Logged("exit", r)
    /\ IF return_code # 0
       THEN /\ stats' = [stats EXCEPT !.compile_failures = @ + 1]
            /\ req' = [Raise(r, 400) EXCEPT
                          ![r].detail = << "Compilation failed with return code ",
                                           "return_code", ":\n", "stdout" >>]
       ELSE /\ stats' = [stats EXCEPT !.compile_successes = @ + 1]
            /\ req' = [req EXCEPT ![r].pc = "package"]
    /\ UNCHANGED <<sketch_cache, only_quick_builds, started, launched, built>>
    /\ UNCHANGED <<sessionVars, libVars, syncVars>>
    /\ server_compile_finally(r)

\* _compile_source: reading the toolchain's output raises (readline decodes
\* the pipe as text): the with statement releases the lock, no result counter
\* is touched, and server_compile's "except Exception" answers 500.
compile_source_read_raises(r) ==
    /\ req[r].pc = "running"
    /\ compiler_lock' = Unlocked
    /\ tool_log' = Logged("exit", r)
    /\ req' = Raise(r, 500)
    /\ UNCHANGED <<sketch_cache, stats, only_quick_builds, started, launched, built>>
    /\ UNCHANGED <<sessionVars, libVars, syncVars>>
    /\ server_compile_finally(r)

\* _compile_source after the lock: fastled_js, out.txt, perf.txt, hash.txt,
\* the zip; then server_compile's cache_put and the response.  The bytes of
\* the zip differ from build to build (perf.txt holds the measured times).
compile_source_package(r, fastled_js) ==
    /\ req[r].pc = "package"
    /\ LET data == [hash |-> req[r].hash_value, build |-> req[r].build,
                    serial |-> launched]
       IN IF fastled_js
          THEN /\ req' = [FileResponse(r, data, FALSE) EXCEPT
                             ![r].cache_ops =
                                 IF cacheable(req[r].hash_value, req[r].use_sketch_cache)
                                 THEN Append(@, "put") ELSE @]
               /\ built' = built \cup {data}
               /\ sketch_cache' =
                     IF cacheable(req[r].hash_value, req[r].use_sketch_cache)
                     THEN cache_put(sketch_cache, req[r].hash_value, data)
                     ELSE sketch_cache
          ELSE /\ req' = Raise(r, 500)
               /\ UNCHANGED <<built, sketch_cache>>
    /\ UNCHANGED <<compiler_lock, stats, only_quick_builds, started, launched, tool_log>>
    /\ UNCHANGED <<sessionVars, libVars, syncVars>>
    /\ server_compile_finally(r)

\* The background task _cleanup_task of a sent response: _cleanup_files
\* removes the path if a directory exists there.
cleanup_task(path) ==
    /\ path \in tmp.cleanup
    /\ tmp' = [exists |-> tmp.exists \ {path}, cleanup |-> tmp.cleanup \ {path}]
    /\ UNCHANGED <<req, compiler_lock, sketch_cache, stats, only_quick_builds,
                   started, launched, tool_log, built>>
    /\ UNCHANGED <<sessionVars, libVars, syncVars>>

\* The response has been sent; the thread goes back to the pool.
compile_wasm_return(r) ==
    /\ req[r].pc = "done"
    /\ started < MaxRequests
    /\ req' = [req EXCEPT ![r] = NoCompile]
    /\ UNCHANGED <<compiler_lock, sketch_cache, stats, only_quick_builds, started,
                   launched, tool_log, built>>
    /\ UNCHANGED <<sessionVars, libVars, syncVars>>
    /\ UNCHANGED tmp

\* ------------------------------------------------ the live-git sync thread

\* The name of the thread that runs start_sync_live_git_to_target, as the
\* holder of the lock.
SyncThread == "sync"

\* What the live-git sync never touches.
outsideSync == <<sessionVars, libVars, req, stats, only_quick_builds, started,
                 launched, tool_log, built, tmp>>

\* start_sync_live_git_to_target is called with the server's lock as
\* compiler_lock: update_live_git_repo runs without the lock.  has_rsync is
\* code_sync's _HAS_RSYNC, fixed when the module was imported.
start_sync_live_git_to_target(has_rsync) ==
    /\ sync.pc = "idle"
    /\ sync' = [sync EXCEPT !.pc = "with_lock", !.has_rsync = has_rsync]
    /\ UNCHANGED <<compiler_lock, sketch_cache>>
    /\ UNCHANGED outsideSync

\* start_sync_live_git_to_target: "with compiler_lock:" is entered.
sync_with_lock ==
    /\ sync.pc = "with_lock"
    /\ ~locked(compiler_lock)
    /\ compiler_lock' = SyncThread
    /\ sync' = [sync EXCEPT !.pc = "sync_src", !.in_with = TRUE]
    /\ UNCHANGED sketch_cache
    /\ UNCHANGED outsideSync

\* CodeSync.sync_src_to_target -> _sync_src_to_target, up to its
\* "with COMPILE_LOCK:": it returns False before the lock when rsync is not
\* installed or the source directory does not exist.
sync_src_to_target(src_exists) ==
    /\ sync.pc \in {"sync_src", "sync_examples"}
    /\ sync' = [sync EXCEPT !.pc = IF ~sync.has_rsync \/ ~src_exists
                                   THEN IF sync.in_with THEN "release" ELSE "timer"
                                   ELSE "inner_lock"]
    /\ UNCHANGED <<compiler_lock, sketch_cache>>
    /\ UNCHANGED outsideSync

\* _sync_src_to_target: "with COMPILE_LOCK:" is entered; threading.Lock
\* blocks whoever the holder is.
sync_src_acquire ==
    /\ sync.pc = "inner_lock"
    /\ ~locked(compiler_lock)
    /\ compiler_lock' = SyncThread
    /\ sync' = [sync EXCEPT !.pc = "rsync"]
    /\ UNCHANGED sketch_cache
    /\ UNCHANGED outsideSync

\* _sync_src_to_target under the lock: rsync runs; when it reports changed
\* source files the callback on_files_changed clears the sketch cache; a
\* failing rsync is caught; the with statement releases the lock.
sync_src_rsync(changed) ==
    /\ sync.pc = "rsync"
    /\ sketch_cache' = IF changed THEN << >> ELSE sketch_cache
    /\ compiler_lock' = Unlocked
    /\ sync' = [sync EXCEPT !.pc = IF sync.in_with THEN "release" ELSE "timer"]
    /\ UNCHANGED outsideSync

\* start_sync_live_git_to_target: the with statement releases compiler_lock;
\* the sync of the examples directory follows, outside the with statement.
sync_release ==
    /\ sync.pc = "release"
    /\ compiler_lock' = Unlocked
    /\ sync' = [sync EXCEPT !.pc = "sync_examples", !.in_with = FALSE]
    /\ UNCHANGED sketch_cache
    /\ UNCHANGED outsideSync

\* start_sync_live_git_to_target: the Timer for the next update is started
\* and the call returns.
sync_timer ==
    /\ sync.pc = "timer"
    /\ sync' = [sync EXCEPT !.pc = "returned"]
    /\ UNCHANGED <<compiler_lock, sketch_cache>>
    /\ UNCHANGED outsideSync

\* One step of the live-git sync thread.
SyncStep ==
    \/ \E has_rsync \in BOOLEAN : start_sync_live_git_to_target(has_rsync)
    \/ sync_with_lock
    \/ \E src_exists \in BOOLEAN : sync_src_to_target(src_exists)
    \/ sync_src_acquire
    \/ \E changed \in BOOLEAN : sync_src_rsync(changed)
    \/ sync_release
    \/ sync_timer

\* The steps of request threads R, for requests whose session_id header is in
\* Hints, whose upload has a fingerprint in Uploads, whose authorization
\* header is in Auths, whose content-length header is in Lengths and whose
\* native and no_platformio headers are in Options, on a server whose
\* environment is one of Envs and where thread r's two mkdtemp() calls return
\* a pair of names in Temps[r]; and the background cleanups.
CompileStepIn(R, Hints, Uploads, Auths, Lengths, Options, Envs, Temps) ==
    \/ \E r \in R : \E authorization \in Auths : \E content_length \in Lengths :
          dispatch(r, authorization, content_length)
    \/ \E r \in {t \in R : req[t].pc = "endpoint"} :
       \E session_id \in Hints : \E build \in WasmBuilds :
       \E zip_name \in BOOLEAN : \E sketch \in Uploads \cup {NoHash} :
       \E use_sketch_cache \in BOOLEAN :
       \E headers \in Options : \E environ \in Envs : \E temp \in Temps[r] :
          compile_wasm(r, session_id, build, zip_name, sketch, use_sketch_cache,
                       headers, environ, temp[1], temp[2])
    \/ \E r \in R : \E files_changed \in BOOLEAN : server_compile_update_src(r, files_changed)
    \/ \E r \in R : server_compile_cache_get(r)
    \/ \E r \in R : compile_source(r)
    \/ \E r \in R : \E entries \in TopEntries : compile_source_count(r, entries)
    \/ \E r \in R : compile_source_acquire(r)
    \/ \E r \in R : \E spawned \in BOOLEAN : compile_source_popen(r, spawned)
    \/ \E r \in R : \E return_code \in {0, 1} : compile_source_wait(r, return_code)
    \/ \E r \in R : compile_source_read_raises(r)
    \/ \E r \in R : \E fastled_js \in BOOLEAN : compile_source_package(r, fastled_js)
    \/ \E r \in R : compile_wasm_return(r)
    \/ \E path \in TmpNames : cleanup_task(path)

\* The same where no thread is ever given a name another thread has used.
CompileStepWith(R, Hints, Uploads, Auths, Lengths, Options, Envs) ==
    CompileStepIn(R, Hints, Uploads, Auths, Lengths, Options, Envs, PrivateTemps)

\* The same for clients that set neither native nor no_platformio, on a
\* server whose environment sets neither.
CompileStepFor(R, Hints, Uploads, Auths, Lengths) ==
    CompileStepWith(R, Hints, Uploads, Auths, Lengths, {NoOptions}, {NoEnviron})

\* The same for clients that send the shared token and no content-length.
CompileStep(R, Hints, Uploads) == CompileStepFor(R, Hints, Uploads, {AUTH_TOKEN}, {""})

\* Two request threads serving clients that send no session_id and upload
\* the same sketch; the clock stands still.
CompileNext == CompileStep(Requests, {None}, {"a"})

\* One request thread: requests follow one another; the clock stands still.
CompileSeqNext == CompileStep({"r1"}, Ids \cup {None}, Sketches)

\* One request thread; requests for one sketch follow one another as the
\* clock advances.
CompileClockNext == Tick \/ CompileStep({"r1"}, Ids \cup {None}, {"a"})

SpecCompile ==
    DefaultInit
    /\ [][CompileNext]_vars

SpecCompileSeq ==
    DefaultInit
    /\ [][CompileSeqNext]_vars

SpecCompileClock ==
    DefaultInit
    /\ [][CompileClockNext]_vars

\* One request thread on a quick-only server.
SpecCompileQuickOnly ==
    QuickOnlyInit
    /\ [][CompileSeqNext]_vars

\* One request thread; clients send any native and no_platformio headers, the
\* environment holds any NATIVE and NO_PLATFORMIO, and no upload can be
\* fingerprinted.
CompileArgsNext ==
    CompileStepWith({"r1"}, {None}, {}, {AUTH_TOKEN}, {""},
                    OptionHeaders, Environs)

SpecCompileArgs ==
    DefaultInit
    /\ [][CompileArgsNext]_vars

\* One request thread whose mkdtemp() calls may return any name not in use;
\* every upload is fingerprinted as sketch "a".
CompileStagingNext ==
    CompileStepIn({"r1"}, {None}, {"a"}, {AUTH_TOKEN}, {""},
                  {NoOptions}, {NoEnviron}, SharedTemps)

SpecCompileStaging ==
    DefaultInit
    /\ [][CompileStagingNext]_vars

\* One request thread and the live-git sync thread.
CompileSyncNext == CompileStep({"r1"}, {None}, {"a"}) \/ SyncStep

SpecCompileSync ==
    DefaultInit
    /\ [][CompileSyncNext]_vars

\* One request thread; clients send any authorization and content-length.
CompileGuardNext == CompileStepFor({"r1"}, {None}, {"a"}, Authorizations, ContentLengths)

SpecCompileGuard ==
    DefaultInit
    /\ [][CompileGuardNext]_vars

\* ---------------------------------------------------- /compile/wasm: claims

\* The requests inside their toolchain invocation (launched, not yet waited).
Running == {r \in Requests : req[r].pc = "running"}

\* C1: at most one request is inside its toolchain invocation at any instant,
\* and the lock reads as held while one is; invocations are totally ordered
\* by lock acquisition: an acquisition is followed by its own launch (or its
\* own release), a launch by its own exit, and only then the next acquisition.
C1_OneToolchainAtATime ==
    /\ Cardinality(Running) <= 1
    /\ \A r \in Requests : req[r].pc \in {"locked", "running"} => compiler_lock = r
    /\ Running # {} => locked(compiler_lock)
    /\ \A i \in 1..(Len(tool_log) - 1) :
          /\ tool_log[i].ev = "acquire" =>
                /\ tool_log[i + 1].r = tool_log[i].r
                /\ tool_log[i + 1].ev \in {"launch", "release"}
          /\ tool_log[i].ev = "launch" =>
                tool_log[i + 1] = [ev |-> "exit", r |-> tool_log[i].r]
          /\ tool_log[i].ev \in {"exit", "release"} => tool_log[i + 1].ev = "acquire"

\* C1 witness: one request is inside its toolchain invocation while another,
\* whose files are ready, waits for the lock.
C1_Witness ==
    \E r1 \in Requests : \E r2 \in Requests :
        /\ req[r1].pc = "running"
        /\ req[r2].pc = "wait_lock"
        /\ compiler_lock = r1

\* C7: on every successful /compile/wasm response X-Session-Id is what
\* GetOrCreate(session_id) returns: for a session_id that is unknown or older
\* than the worker lease, a newly minted id different from the one sent; for
\* a registered one within the lease, the same id, with last_used touched.
C7_SessionHeaderFromGetOrCreate ==
    \A r \in Requests :
        (req[r].pc = "done" /\ req[r].status = 200 /\ req[r].session_id # None)
        => LET h == req[r].session_id
               info == req[r].session_info
           IN /\ (~info.exists \/ info.age_seconds > worker_lease_duration)
                    => /\ req[r].x_session_id # h
                       /\ req[r].x_session_id \in DOMAIN sessions
                       /\ sessions[req[r].x_session_id].created = req[r].called
              /\ (info.exists /\ info.age_seconds < worker_lease_duration)
                    => /\ req[r].x_session_id = h
                       /\ sessions[h].last_used = req[r].called

\* The cache-lookup step of request r.
CacheGetStep(r) == req[r].pc = "lookup" /\ req'[r].pc # "lookup"

\* C10: a request that finds its fingerprint in the cache (use_sketch_cache
\* on), and no other request, is answered from the cache: with the bytes
\* stored under that fingerprint, never taking the build lock and never
\* invoking the toolchain; what is stored under a
\* fingerprint is the body of the successful build response that put it
\* there, and it stays until a clear or a later put for that fingerprint.
C10_CacheHitServesStoredBytes ==
    [][/\ \A r \in Requests :
             CacheGetStep(r)
             => IF req[r].use_sketch_cache /\ req[r].hash_value \in DOMAIN sketch_cache
                THEN /\ req'[r].pc = "done"
                     /\ req'[r].status = 200
                     /\ req'[r].cached
                     /\ req'[r].body = sketch_cache[req[r].hash_value]
                     /\ req'[r].body.hash = req[r].hash_value
                     /\ req'[r].body \in built
                     /\ ~req'[r].took_lock
                     /\ ~req'[r].invoked
                     /\ UNCHANGED <<compiler_lock, launched, tool_log, stats, sketch_cache>>
                ELSE /\ req'[r].pc = "compile"
                     /\ ~req'[r].cached
       /\ \A r \in Requests :
             (req[r].pc = "package" /\ req'[r].pc = "done" /\ req'[r].status = 200
              /\ req[r].use_sketch_cache /\ req[r].hash_value # NoHash)
             => /\ req[r].hash_value \in DOMAIN sketch_cache'
                /\ sketch_cache'[req[r].hash_value] = req'[r].body
       /\ \A h \in DOMAIN sketch_cache :
             \/ h \in DOMAIN sketch_cache' /\ sketch_cache'[h] = sketch_cache[h]
             \/ \E r \in Requests : req[r].pc = "staged" /\ req'[r].pc = "lookup"
             \/ \E r \in Requests : /\ req[r].pc = "package"
                                    /\ req[r].hash_value = h
                                    /\ req'[r].status = 200]_vars

\* C10 witness: the second request for a sketch was answered from the cache
\* with the body its first build produced, and the toolchain ran only once.
C10_Witness ==
    \E r \in Requests :
        /\ req[r].pc = "done"
        /\ req[r].cached
        /\ req[r].status = 200
        /\ started = 2
        /\ launched = 1
        /\ req[r].body = [hash |-> req[r].hash_value, build |-> "quick", serial |-> 1]
        /\ ~req[r].took_lock
        /\ compiler_lock = Unlocked

\* C11: a POST to /compile/wasm or /compile/libfastled whose authorization
\* header is missing or differs from the shared token is answered with 401
\* (413 if the upload guard refused it first), and no session, compile or
\* streaming work is started for it.
C11_UnauthorizedRejected ==
    /\ \A r \in Requests :
          (req[r].pc \notin {"idle", "endpoint"} /\ req[r].authorization # AUTH_TOKEN)
          => /\ req[r].pc = "done"
             /\ req[r].status \in {401, 413}
             /\ req[r].sid = None
             /\ ~req[r].took_lock
    /\ (lib.pc # "none" /\ lib.request.authorization # AUTH_TOKEN)
          => /\ lib.pc = "rejected"
             /\ lib.http = 401
             /\ lib.events = << >>

\* The upload guard's step for request thread r.
DispatchStep(r) == req[r].pc = "idle" /\ req'[r].pc # "idle"

\* The content-length values that declare more than 10 * 1024 * 1024 bytes.
OverLimit == {"10485761"}

\* C12: a POST to /compile/wasm whose declared content-length exceeds the
\* upload limit is answered 413 by the guard and never reaches the pipeline
\* (no session, no counter, no lock, no cache change); with the header absent
\* or at most the limit the request is forwarded to the endpoint.
C12_UploadGuard ==
    [][\A r \in Requests :
          DispatchStep(r)
          => IF req'[r].content_length \in OverLimit
             THEN /\ req'[r].pc = "done"
                  /\ req'[r].status = 413
                  /\ UNCHANGED <<sessions, stats, compiler_lock, sketch_cache,
                                 launched, tool_log, built>>
             ELSE req'[r].pc = "endpoint"]_vars

\* C12 witness: an upload one byte over the limit was refused by the guard,
\* after an earlier upload had been forwarded and compiled.
C12_Witness ==
    \E r \in Requests :
        /\ req[r].pc = "done"
        /\ req[r].status = 413
        /\ req[r].content_length = "10485761"
        /\ stats.compile_successes = 1
        /\ started = 2

\* C13: on a quick-only server every request whose build is release or debug
\* fails with a 4xx and receives no artifact, on every path through the
\* pipeline (a cached fingerprint included), and never takes the build lock.
C13_QuickOnlyRejectsOtherBuilds ==
    only_quick_builds
    => \A r \in Requests :
          req[r].build \in {"release", "debug"}
          => /\ req[r].pc \notin {"locked", "running", "package"}
             /\ ~req[r].took_lock
             /\ req[r].pc = "done" => /\ req[r].status \in 400..499
                                      /\ req[r].body = NoBody

\* ------------------------------------------ /compile/libfastled: the stream

\* HTTPException(status_code, detail) raised before any streaming; detail is
\* the message as the sequence of its pieces (an f-string's literal parts and
\* substituted values).
Rejected(status_code, detail) ==
    [lib EXCEPT !.pc = "rejected", !.http = status_code, !.detail = detail]

\* The generator yields the next pending line of its current block.
Yielded == [lib EXCEPT !.events = Append(@, Head(lib.queue)), !.queue = Tail(@)]

\* Control reaches the finally block with these exit_code and status.
Finally(l, exit_code, status) ==
    [l EXCEPT !.pc = "finally", !.exit_code = exit_code, !.status = status,
              !.queue = trailer_events(exit_code, status)]

\* compile_libfastled up to the StreamingResponse: authorization, dry_run
\* parsing, the mirror check, build validation.
compile_libfastled(authorization, build, dry_run, exists) ==
    /\ lib.pc = "none"
    /\ LET dry_run_bool == lower(dry_run) \in {"true", "1", "yes"}
           build_mode_str == IF build # "" THEN upper(build) ELSE "QUICK"
           answer == IF authorization # AUTH_TOKEN
                     THEN Rejected(401, << "Unauthorized" >>)
                     ELSE IF ~dry_run_bool /\ ~exists
                     THEN Rejected(400, << "Volume mapped source directory does not exist. ",
                                           "This endpoint requires a properly configured environment." >>)
                     ELSE IF build_mode_str \notin {"QUICK", "DEBUG", "RELEASE"}
                     THEN Rejected(400, << "Invalid build mode: ", build,
                                           ". Must be one of: ", "quick, debug, release" >>)
                     ELSE [lib EXCEPT !.pc = "start", !.http = 200,
                                      !.build_mode_str = build_mode_str,
                                      !.dry_run_bool = dry_run_bool]
       IN lib' = [answer EXCEPT !.request =
                     [authorization |-> authorization, build |-> build,
                      dry_run |-> dry_run, exists |-> exists]]
    /\ UNCHANGED <<sessionVars, compileVars, syncVars>>

\* stream_compilation: the first line, then the branch on dry_run_bool.
stream_compilation ==
    /\ lib.pc = "start"
    /\ lib' = [lib EXCEPT
                 !.events = Append(@, Event("Using BUILD_MODE", lib.build_mode_str)),
                 !.pc = IF lib.dry_run_bool THEN "dry_run" ELSE "check",
                 !.queue = IF lib.dry_run_bool
                           THEN << Event("DRY RUN MODE: Will skip actual compilation", ""),
                                   Event("Would compile libfastled with BUILD_MODE",
                                         lib.build_mode_str) >>
                           ELSE << Event("Checking for source file changes...", "") >>]
    /\ UNCHANGED <<sessionVars, compileVars, syncVars>>

\* The dry-run branch: two lines, then the finally block.
stream_dry_run ==
    /\ lib.pc = "dry_run"
    /\ lib' = IF Len(lib.queue) > 1 THEN Yielded ELSE Finally(Yielded, 0, "SUCCESS")
    /\ UNCHANGED <<sessionVars, compileVars, syncVars>>

\* The compile branch up to the async for over update_src_async.
stream_check ==
    /\ lib.pc = "check"
    /\ lib' = [Yielded EXCEPT !.pc = "upd", !.queue = update_src_async_prologue]
    /\ UNCHANGED <<sessionVars, compileVars, syncVars>>

\* update_src_async yields a progress message and the stream forwards it.
update_src_async_yield ==
    /\ lib.pc = "upd"
    /\ lib.queue # << >>
    /\ lib' = Yielded
    /\ UNCHANGED <<sessionVars, compileVars, syncVars>>

\* update_src_async awaits compiler.update_src in the executor.
update_src_async_await ==
    /\ lib.pc = "upd"
    /\ lib.queue = << >>
    /\ lib.upd = "none"
    /\ \E outcome \in UpdateOutcomes :
       \E attrs \in SUBSET ExcAttrs :
          /\ outcome # "raised" => attrs = {}
          /\ lib' = [lib EXCEPT !.upd = outcome, !.exc = attrs,
                                !.queue = update_src_async_epilogue(outcome)]
    /\ UNCHANGED <<sessionVars, compileVars, syncVars>>

\* update_src_async ends: it returns, or re-raises what the executor raised.
update_src_async_end ==
    /\ lib.pc = "upd"
    /\ lib.queue = << >>
    /\ lib.upd # "none"
    /\ lib' = IF lib.upd = "raised"
              THEN [lib EXCEPT !.pc = "inner_except",
                               !.queue = inner_except_events(lib.exc)]
              ELSE [lib EXCEPT !.pc = "updated",
                               !.queue = << Event("Source update completed in", "duration"),
                                            Event("LibFastLED compilation completed successfully!", "") >>]
    /\ UNCHANGED <<sessionVars, compileVars, syncVars>>

\* After the async for: the duration and the success line.
stream_updated ==
    /\ lib.pc = "updated"
    /\ lib' = IF Len(lib.queue) > 1 THEN Yielded ELSE Finally(Yielded, 0, "SUCCESS")
    /\ UNCHANGED <<sessionVars, compileVars, syncVars>>

\* The inner handler: the error line, the exception's details, exit_code = 1.
\* Encoding captured output can itself raise (UnicodeEncodeError), which
\* leaves the handler for the outer one.
stream_inner_except ==
    /\ lib.pc = "inner_except"
    /\ \/ lib' = IF Len(lib.queue) > 1 THEN Yielded ELSE Finally(Yielded, 1, "FAIL")
       \/ /\ Head(lib.queue).tag \in {"Compilation stdout", "Compilation stderr"}
          /\ lib' = [lib EXCEPT !.pc = "outer_except", !.queue = outer_except_events]
    /\ UNCHANGED <<sessionVars, compileVars, syncVars>>

\* The outer handler: the error line, the stack trace, exit_code = -1.
stream_outer_except ==
    /\ lib.pc = "outer_except"
    /\ lib' = IF Len(lib.queue) > 1 THEN Yielded ELSE Finally(Yielded, -1, "FAIL")
    /\ UNCHANGED <<sessionVars, compileVars, syncVars>>

\* The finally block: the completion markers, then the generator is exhausted.
stream_finally ==
    /\ lib.pc = "finally"
    /\ lib' = IF Len(lib.queue) > 1 THEN Yielded ELSE [Yielded EXCEPT !.pc = "closed"]
    /\ UNCHANGED <<sessionVars, compileVars, syncVars>>

\* The program points of stream_compilation from its start to its last yield.
Streaming == {"start", "dry_run", "check", "upd", "updated",
              "inner_except", "outer_except", "finally"}

\* The client goes away while the generator is suspended at a yield (or has
\* not been started) and the generator is closed: GeneratorExit is raised at
\* that yield, neither handler catches it (both are except Exception), and
\* outside the finally block control enters the finally block, whose first
\* yield makes the close fail with "async generator ignored GeneratorExit";
\* the line is handed to nobody and the generator is never resumed.
client_disconnect ==
    /\ lib.pc \in Streaming
    /\ ~lib.disconnected
    /\ lib' = [lib EXCEPT !.disconnected = TRUE,
                          !.thrown = IF lib.pc = "start" THEN "none" ELSE "GeneratorExit",
                          !.pc = "abandoned",
                          !.queue = << >>]
    /\ UNCHANGED <<sessionVars, compileVars, syncVars>>

\* The client goes away while update_src_async awaits the executor and the
\* task is cancelled: the call already submitted runs on in its thread,
\* CancelledError is raised at the await, no except Exception catches it, and
\* control enters the finally block of stream_compilation with exit_code and
\* status as they are; the yields of the finally block then run as usual.
client_disconnect_await ==
    /\ lib.pc = "upd"
    /\ lib.queue = << >>
    /\ lib.upd = "none"
    /\ ~lib.disconnected
    /\ lib' = Finally([lib EXCEPT !.disconnected = TRUE,
                                  !.thrown = "CancelledError",
                                  !.upd = "abandoned"],
                      lib.exit_code, lib.status)
    /\ UNCHANGED <<sessionVars, compileVars, syncVars>>

LibNext ==
    \/ \E authorization \in Authorizations : \E build \in Builds :
       \E dry_run \in DryRuns : \E exists \in BOOLEAN :
          compile_libfastled(authorization, build, dry_run, exists)
    \/ stream_compilation
    \/ stream_dry_run
    \/ stream_check
    \/ update_src_async_yield
    \/ update_src_async_await
    \/ update_src_async_end
    \/ stream_updated
    \/ stream_inner_except
    \/ stream_outer_except
    \/ stream_finally
    \/ client_disconnect
    \/ client_disconnect_await

SpecLib ==
    DefaultInit
    /\ [][LibNext]_vars

\* ----------------------------------------- /compile/libfastled: claims

\* The last four lines of the stream.
LastFour == SubSeq(lib.events, Len(lib.events) - 3, Len(lib.events))

\* How often a line with this tag occurs in the stream.
Count(tag) == Cardinality({i \in 1..Len(lib.events) : lib.events[i].tag = tag})

TrailerTags == {"COMPILATION_COMPLETE", "EXIT_CODE", "STATUS", "HTTP_STATUS"}

\* C8: every stream that has begun and run to its end ends with the four
\* lines COMPILATION_COMPLETE, EXIT_CODE: n, STATUS: s, HTTP_STATUS: h, in
\* that order and each exactly once; n is 0, 1 or -1, s is SUCCESS for 0 and
\* FAIL otherwise, h is 200, 400, 500 for 0, 1, -1.  Before its end the
\* stream can always go on, and no marker precedes the finally block.
C8_TrailerEndsStream ==
    /\ lib.pc = "closed" =>
          /\ Len(lib.events) >= 5
          /\ \E n \in {"0", "1", "-1"} :
                LastFour = << Event("COMPILATION_COMPLETE", ""),
                              Event("EXIT_CODE", n),
                              Event("STATUS", IF n = "0" THEN "SUCCESS" ELSE "FAIL"),
                              Event("HTTP_STATUS", CASE n = "0" -> "200"
                                                     [] n = "1" -> "400"
                                                     [] OTHER -> "500") >>
          /\ \A tag \in TrailerTags : Count(tag) = 1
    /\ lib.pc \in {"start", "dry_run", "check", "upd", "updated",
                   "inner_except", "outer_except"} =>
          /\ \A tag \in TrailerTags : Count(tag) = 0
          /\ ENABLED LibNext
    /\ lib.pc = "finally" => ENABLED stream_finally

\* C8 witness: a stream that met an unexpected exception has ended with the
\* markers for exit code -1.
C8_Witness ==
    /\ lib.pc = "closed"
    /\ lib.exit_code = -1
    /\ LastFour = trailer_events(-1, "FAIL")
    /\ Count("Stack trace") = 1

\* C9: when the source updater fails on a non-dry run (its result carries an
\* exception, or it raises) and nothing else goes wrong, the stream shows
\* the failure cause and ends with EXIT_CODE: 1, STATUS: FAIL,
\* HTTP_STATUS: 400; it never ends with STATUS: SUCCESS.
C9_UpdaterFailureFails ==
    (/\ lib.pc = "closed"
     /\ lib.upd \in {"result_exception", "raised"}
     /\ Count("Stack trace") = 0)
    => /\ Count("Source update failed") = 1
       /\ LastFour = << Event("COMPILATION_COMPLETE", ""), Event("EXIT_CODE", "1"),
                        Event("STATUS", "FAIL"), Event("HTTP_STATUS", "400") >>

\* The build header values outside quick, debug, release in any letter case,
\* and the dry_run header values that ask for a dry run.
InvalidBuilds == {"fast"}
DryRunsTrue == {"TRUE", "Yes", "1"}

\* An authorised request has been answered.
Answered == lib.pc # "none" /\ lib.request.authorization = AUTH_TOKEN

\* The request fails a precondition: the build value, or the mirror it needs.
BuildInvalid == lib.request.build \in InvalidBuilds
MirrorMissing == lib.request.dry_run \notin DryRunsTrue /\ ~lib.request.exists

\* The answer is a 400 and no line of the stream was produced.
Rejected400 == lib.pc = "rejected" /\ lib.http = 400 /\ lib.events = << >>

\* The body of the rejection names quick, debug, release.
NamesValidSet ==
    \E i \in 1..Len(lib.detail) : lib.detail[i] = "quick, debug, release"

\* C15 as stated: an authorised /compile/libfastled request with an invalid
\* build value, or with dry_run false while the mirror directory is missing,
\* is rejected with 400 before any stream event; for an invalid build value
\* the body names the valid set.
C15_PreconditionsRejected ==
    Answered
    => /\ (BuildInvalid \/ MirrorMissing) => Rejected400
       /\ BuildInvalid => NamesValidSet

\* What the endpoint does instead: the mirror is checked before the build
\* value, so the body names the valid set exactly when the build value is
\* invalid and the mirror check passed.
MirrorCheckedFirst ==
    Answered
    => /\ (BuildInvalid \/ MirrorMissing) => Rejected400
       /\ NamesValidSet <=> (BuildInvalid /\ ~MirrorMissing)

\* The build mode a valid build header value stands for (QUICK when absent).
ModeOf(build) ==
    CASE build = "Debug" -> "DEBUG"
      [] build = "RELEASE" -> "RELEASE"
      [] OTHER -> "QUICK"

\* The whole stream of a dry run for build mode M.
DryRunStream(M) ==
    << Event("Using BUILD_MODE", M),
       Event("DRY RUN MODE: Will skip actual compilation", ""),
       Event("Would compile libfastled with BUILD_MODE", M),
       Event("COMPILATION_COMPLETE", ""), Event("EXIT_CODE", "0"),
       Event("STATUS", "SUCCESS"), Event("HTTP_STATUS", "200") >>

\* An authorised dry-run request for a valid build mode has been answered.
DryRunAnswered ==
    /\ Answered
    /\ lib.request.dry_run \in DryRunsTrue
    /\ lib.request.build \notin InvalidBuilds

\* C16: a dry-run rebuild for a valid build mode M is accepted whether or not
\* the mirror directory exists, never invokes the source updater, and its
\* stream is, line by line, Using BUILD_MODE: M, DRY RUN MODE, Would compile
\* libfastled with BUILD_MODE=M, then the trailer with EXIT_CODE: 0,
\* STATUS: SUCCESS, HTTP_STATUS: 200, and nothing else.
C16_DryRunStream ==
    DryRunAnswered
    => LET expected == DryRunStream(ModeOf(lib.request.build))
       IN /\ lib.pc # "rejected" /\ lib.http = 200
          /\ lib.upd = "none"
          /\ Len(lib.events) <= Len(expected)
          /\ lib.events = SubSeq(expected, 1, Len(lib.events))
          /\ lib.pc = "closed" => lib.events = expected

\* A dry run for Debug without the mirror directory has run to its end.
C16_Witness ==
    /\ DryRunAnswered /\ lib.pc = "closed"
    /\ lib.request.build = "Debug" /\ lib.request.dry_run = "Yes"
    /\ ~lib.request.exists
    /\ Len(lib.events) = 7

\* C17: once the client has disconnected from a /compile/libfastled stream,
\* the streamer produces no further line (progress or trailer) and starts no
\* further updater work.
C17_DisconnectAbandons ==
    [][lib.disconnected
          => /\ lib'.events = lib.events
             /\ lib'.upd = lib.upd]_vars

\* ------------------------------------------------------------------ /info

\* The module-level CompilerStats() of server.py: constructed with zero
\* counters and assigned nowhere in the module, so it is not a variable. The
\* pipeline counts in stats, the CompilerStats() that ServerWasmCompiler
\* constructs for itself.
_COMPILER_STATS ==
    [compile_count |-> 0, compile_failures |-> 0, compile_successes |-> 0]

\* The counters and the build list of the dictionary info_examples returns.
info_examples ==
    [compile_count |-> _COMPILER_STATS.compile_count,
     compile_failures |-> _COMPILER_STATS.compile_failures,
     compile_successes |-> _COMPILER_STATS.compile_successes,
     available_builds |-> IF ~only_quick_builds
                          THEN << "quick", "release", "debug" >>
                          ELSE << "quick" >>]

\* C18: at any moment GET /info reports the counters of the compile
\* pipeline: the builds attempted, the builds that failed and the builds
\* that succeeded.
C18_InfoReportsPipelineCounters ==
    /\ info_examples.compile_count = stats.compile_count
    /\ info_examples.compile_failures = stats.compile_failures
    /\ info_examples.compile_successes = stats.compile_successes

\* -------------------------------------- session manager: minting and sharing

\* Thread t registers a new session in this transition: the locked step of
\* get_or_create_session that does not reuse, or generate_session_id.
GenStep(t) == wk[t].pc = "idle" /\ wk'[t].pc = "gen_ret"
MintStep(t) == (GocStep(t) /\ ~wk'[t].reused) \/ GenStep(t)

\* C19: every id minted by generate_session_id or get_or_create_session was
\* unregistered at the instant of its registration and is registered with
\* created = last_used = the time the call read (the current time for
\* generate_session_id); the registration touches no other record, every
\* record is filed under its own id, and so the id differs from every id
\* returned earlier whose session is still registered.
C19_MintedIdsUnique ==
    [][/\ \A i \in DOMAIN sessions' : sessions'[i].session_id = i
       /\ \A t \in Threads :
             MintStep(t)
             => /\ wk'[t].sid \notin DOMAIN sessions
                /\ DOMAIN sessions' = DOMAIN sessions \cup {wk'[t].sid}
                /\ sessions'[wk'[t].sid] = SessionInfo(wk'[t].sid, wk'[t].ct)
                /\ GenStep(t) => wk'[t].ct = now
                /\ RecordsKept
                /\ \A u \in Threads \ {t} :
                      (wk[u].sid \in DOMAIN sessions) => wk[u].sid # wk'[t].sid]_vars

\* Two calls running at once, one get_or_create_session and one
\* generate_session_id, have each minted an id; both are registered.
C19_Witness ==
    /\ wk["w1"].pc = "goc_ret" /\ ~wk["w1"].reused
    /\ wk["w2"].pc = "gen_ret"
    /\ wk["w1"].sid # wk["w2"].sid
    /\ {wk["w1"].sid, wk["w2"].sid} \subseteq DOMAIN sessions

\* Another thread is inside get_or_create_session for the same session.
SharedWith(t) ==
    \E u \in Threads \ {t} :
        wk[u].pc \in {"goc_lock", "goc_ret"} /\ wk[u].hint = wk[t].hint

\* C20: when get_or_create_session(h) is called by several threads at once
\* for a registered session h and a call's time is less than the worker
\* lease after the previous touch of h, the call returns (h, True), creates
\* no session, and leaves exactly one record for h: the same record with
\* last_used set to the call's time.
C20_ConcurrentReuse ==
    [][\A t \in Threads :
          (/\ GocStep(t)
           /\ SharedWith(t)
           /\ wk[t].hint \in DOMAIN sessions
           /\ wk[t].ct - sessions[wk[t].hint].last_used < worker_lease_duration)
          => /\ wk'[t].sid = wk[t].hint
             /\ wk'[t].reused
             /\ DOMAIN sessions' = DOMAIN sessions
             /\ sessions' = [sessions EXCEPT ![wk[t].hint].last_used = wk[t].ct]
             /\ sessions'[wk[t].hint].session_id = wk[t].hint]_vars

\* Two overlapping calls for session 1, whose times differ, have both
\* returned (1, True) and session 1 is the only session.
C20_Witness ==
    /\ \A t \in Threads : wk[t].pc = "goc_ret" /\ wk[t].sid = 1 /\ wk[t].reused
    /\ wk["w1"].ct # wk["w2"].ct
    /\ DOMAIN sessions = {1}

\* ------------------------------------------- /compile/wasm: toolchain options

\* The request asks for a native build, by header or, without the header,
\* by NATIVE=1; and the no_platformio value it carries by itself.
NativeOn(r) ==
    \/ req[r].headers.native = "True"
    \/ req[r].headers.native = "None" /\ req[r].environ.NATIVE = "1"
NoPlatformioOn(r) ==
    \/ req[r].headers.no_platformio = "True"
    \/ req[r].headers.no_platformio = "None" /\ req[r].environ.NO_PLATFORMIO = "1"

\* The request has built the command line of the toolchain.
HasArgs(r) == req[r].pc \in {"wait_lock", "locked", "running", "package"}

\* C21: in the arguments given to the toolchain, a native request has
\* no_platformio = true whatever the no_platformio header and the
\* NO_PLATFORMIO variable say, and a request that is not native has the
\* no_platformio value of its header (of the variable, without the header).
C21_NativeForcesNoPlatformio ==
    \A r \in Requests :
        HasArgs(r)
        => /\ NativeOn(r) => req[r].args.no_platformio = TRUE
           /\ ~NativeOn(r) => req[r].args.no_platformio = NoPlatformioOn(r)

\* The toolchain runs for a native request that sent no_platformio: false.
C21_Witness ==
    \E r \in Requests :
        /\ req[r].pc = "running"
        /\ req[r].headers = [native |-> "True", no_platformio |-> "False"]
        /\ req[r].args.no_platformio

\* C22: a request whose extracted tree has no top-level entry, or two or
\* more, fails with a 5xx and the toolchain is never invoked for it.
C22_OneTopLevelDirectory ==
    \A r \in Requests :
        (req[r].entries # None /\ req[r].entries # 1)
        => /\ req[r].pc = "done"
           /\ req[r].status \in 500..599
           /\ ~req[r].invoked

\* ------------------------------------------------ /compile/wasm: build lock

\* The request is inside "with compiler_lock:", from the acquisition to the
\* end of the toolchain invocation.
InInvocation(r) == req[r].pc \in {"locked", "running"}

\* C23: in every reachable state a request holds the build lock if and only
\* if it is inside its toolchain invocation; the lock is free during
\* extraction, fingerprinting, cache access, the writing of the output files
\* and the zipping, and after every exit from the invocation (zero exit,
\* non-zero exit, failure to spawn, exception while reading the output).
C23_LockOnlyAroundToolchain ==
    /\ compiler_lock \in Requests \cup {Unlocked}
    /\ \A r \in Requests : compiler_lock = r <=> InInvocation(r)

\* Every exit from the invocation has been taken and left the lock free: a
\* request failed on an exception while reading the output, after which the
\* next one was answered with its artifact.
C23_Witness ==
    /\ compiler_lock = Unlocked
    /\ stats = [compile_count |-> 2, compile_failures |-> 0, compile_successes |-> 1]
    /\ launched = 2
    /\ \E r \in Requests : req[r].pc = "done" /\ req[r].status = 200 /\ req[r].took_lock

\* ----------------------------------------- /compile/wasm: staging directories

\* The program points between the creation of the two temporary directories
\* and the answer.
Staging == {"staged", "lookup", "compile", "count", "wait_lock", "locked",
            "running", "package"}

\* The two temporary directories of request r.
Own(r) == {req[r].temp_zip_dir, req[r].temp_src_dir}

\* The staging directories every request removes when it is answered.
StagingRemovedOnReturn ==
    [][\A r \in Requests :
          (req[r].pc \in Staging /\ req'[r].pc = "done")
          => Own(r) \cap tmp'.exists = {}]_vars

\* C24: a request that created its two staging directories has removed both
\* when the pipeline returns, on every path, and while it is in the pipeline
\* nobody else removes them.
C24_StagingRemovedByOwner ==
    [][\A r \in Requests :
          req[r].pc \in Staging
          => /\ req'[r].pc = "done" => Own(r) \cap tmp'.exists = {}
             /\ req'[r].pc \in Staging => Own(r) \subseteq tmp'.exists]_vars

\* ------------------------------------------- /compile/wasm: result counters

\* Request r's toolchain invocation ends in this transition.
InvocationEnds(r) == req[r].pc = "running" /\ req'[r].pc # "running"

\* C25: each toolchain invocation changes exactly one result counter by
\* exactly one: either compile_failures, and then the request fails with a
\* 4xx whose body holds the captured output, or compile_successes, and then
\* the request goes on to package the artifact.
C25_OneResultCounterPerInvocation ==
    [][\A r \in Requests :
          InvocationEnds(r)
          => \/ /\ stats'.compile_failures = stats.compile_failures + 1
                /\ stats'.compile_successes = stats.compile_successes
                /\ req'[r].pc = "done"
                /\ req'[r].status \in 400..499
                /\ \E i \in 1..Len(req'[r].detail) : req'[r].detail[i] = "stdout"
             \/ /\ stats'.compile_successes = stats.compile_successes + 1
                /\ stats'.compile_failures = stats.compile_failures
                /\ req'[r].pc = "package"]_vars

\* ------------------------------------------- /compile/wasm: use of the cache

\* Request r may use the cache: it asked for it and has a fingerprint.
MayUseCache(r) == req[r].use_sketch_cache /\ req[r].hash_value # NoHash

\* Request r is past the upload stage of the pipeline.
PastLookup(r) ==
    req[r].pc \in {"compile", "count", "wait_lock", "popen", "running", "package"}

\* C26: a request calls the cache (get or put) only when use_sketch_cache is
\* true and a fingerprint was computed; otherwise it makes no call, leaves the
\* cache as it is and goes on from the lookup to _compile_source; and a put
\* happens only in the step that packages the artifact of a zero-exit build
\* and answers 200.
C26_CacheOnlyWhenCacheable ==
    [][\A r \in Requests :
          /\ req'[r].cache_ops # << >> /\ req[r].pc # "idle"
             => MayUseCache(r)
          /\ (req[r].pc = "lookup" /\ req'[r].pc # "lookup" /\ ~MayUseCache(r))
             => /\ req'[r].pc = "compile"
                /\ req'[r].cache_ops = << >>
                /\ sketch_cache' = sketch_cache
          /\ (req[r].pc = "lookup" /\ req'[r].pc # "lookup" /\ MayUseCache(r))
             => req'[r].cache_ops = << "get" >>
          /\ req'[r].cache_ops # req[r].cache_ops /\ req[r].pc # "lookup"
                /\ req'[r].cache_ops # << >>
             => /\ req[r].pc = "package"
                /\ req'[r].cache_ops = << "get", "put" >>
                /\ req'[r].pc = "done" /\ req'[r].status = 200
                /\ ~req'[r].cached
                /\ sketch_cache'[req[r].hash_value] = req'[r].body
          /\ (PastLookup(r) /\ ~MayUseCache(r) /\ req'[r].pc # "idle")
             => /\ req'[r].cache_ops = << >>
                /\ (sketch_cache' # sketch_cache
                    => \E q \in Requests \ {r} : req'[q].cache_ops # req[q].cache_ops)]_vars

\* A request without a fingerprint and one with the cache switched off were
\* both built by the toolchain and answered 200.
C26_Witness ==
    \E r \in Requests :
       /\ req[r].pc = "done" /\ req[r].status = 200 /\ ~req[r].cached
       /\ ~MayUseCache(r)
       /\ req[r].cache_ops = << >>
       /\ req[r].invoked

\* ------------------------------------------- session manager: GC and dirs

\* C27: the GC removes the directory session-<id> only while <id> is absent
\* from the registry; the directory of an id that is registered at the
\* instant of the deletion is never removed.
C27_GcDeletesOnlyUnregistered ==
    [][\A i \in Ids : (i \in dirs /\ i \notin dirs') => i \notin DOMAIN sessions]_vars

\* Every directory the GC removes belongs to an id its sweep unregistered.
GcDeletesCollected ==
    [][\A i \in Ids : (i \in dirs /\ i \notin dirs') => i \in gc.to_delete]_vars

\* ------------------------------------------- /compile/wasm: cached builds

\* C28: an artifact served from the cache was built in the build mode of the
\* request that receives it.
C28_CachedArtifactInRequestedMode ==
    \A r \in Requests :
       (req[r].pc = "done" /\ req[r].status = 200 /\ req[r].cached)
       => req[r].body.build = req[r].build

\* An artifact served from the cache was built for the fingerprint of the
\* request that receives it.
CachedArtifactOfFingerprint ==
    \A r \in Requests :
       (req[r].pc = "done" /\ req[r].status = 200 /\ req[r].cached)
       => req[r].body.hash = req[r].hash_value /\ req[r].body \in built

\* ------------------------------------------- /compile/wasm: the counters

\* C29: every step leads to a state where compile_failures +
\* compile_successes <= compile_count (as in the initial state, where all
\* three are 0), and no step makes any of the three counters smaller.
C29_CountersConsistent ==
    [][/\ stats'.compile_failures + stats'.compile_successes <= stats'.compile_count
       /\ stats'.compile_count >= stats.compile_count
       /\ stats'.compile_failures >= stats.compile_failures
       /\ stats'.compile_successes >= stats.compile_successes]_vars

\* The result counters, which are only written under the build lock, never
\* decrease and never count more results than toolchain invocations.
ResultCountersUnderLock ==
    [][/\ stats'.compile_failures + stats'.compile_successes <= launched'
       /\ stats'.compile_failures >= stats.compile_failures
       /\ stats'.compile_successes >= stats.compile_successes]_vars

\* --------------------------------------------- the build lock and the sync

\* The live-git sync thread is at a "with" statement on the lock.
SyncRequestsLock == sync.pc \in {"with_lock", "inner_lock"}

\* C30: the build lock is never requested by a thread that already holds it:
\* neither a request thread nor the live-git sync thread waits for the lock
\* while it is the holder.
C30_LockNeverRequestedByHolder ==
    /\ SyncRequestsLock => compiler_lock # SyncThread
    /\ \A r \in Requests : req[r].pc = "wait_lock" => compiler_lock # r

\* A request thread never waits for the lock while holding it, and the sync
\* thread holds the lock at its second request only inside its own with
\* statement.
OnlySyncRerequestsLock ==
    /\ \A r \in Requests : req[r].pc = "wait_lock" => compiler_lock # r
    /\ (SyncRequestsLock /\ compiler_lock = SyncThread)
       => sync.pc = "inner_lock" /\ sync.in_with /\ sync.has_rsync

====
